---- MODULE Spec2Model ----
(***************************************************************************)
(* Model of obspy.fissures.client.Client (DHI/Fissures client).            *)
(*                                                                         *)
(* Every public method is one action: its inputs (the arguments and what   *)
(* the remote services answer during the call) are drawn from small sets,  *)
(* and the action records the call and its whole outcome (result or        *)
(* exception, warnings, remote calls in the order issued) in the           *)
(* variables.  Strings that the code indexes (channel and location codes)  *)
(* are sequences of one-character strings.                                 *)
(***************************************************************************)
EXTENDS Integers, Sequences, FiniteSets, TLC

VARIABLES
    client,   \* the Client object: lifecycle state and the attributes __init__ sets
    op,       \* name of the last operation performed
    args,     \* its arguments
    env,      \* what the remote services answered during it
    out       \* its outcome

vars == <<client, op, args, env, out>>

(***************************************************************************)
(* Generic helpers                                                         *)
(***************************************************************************)
RECURSIVE SeqsUpTo(_, _)
\* all sequences over S of length 0..n
SeqsUpTo(S, n) ==
    IF n = 0 THEN {<<>>}
    ELSE LET shorter == SeqsUpTo(S, n - 1)
         IN  shorter \cup {Append(s, x) : s \in {t \in shorter : Len(t) = n - 1}, x \in S}

RECURSIVE Flatten(_)
\* concatenation of a sequence of sequences
Flatten(ss) == IF ss = <<>> THEN <<>> ELSE Head(ss) \o Flatten(Tail(ss))

RECURSIVE SumSeq(_)
SumSeq(s) == IF s = <<>> THEN 0 ELSE Head(s) + SumSeq(Tail(s))

Range(s) == {s[i] : i \in 1..Len(s)}

IsPrefix(s, t) == Len(s) <= Len(t) /\ SubSeq(t, 1, Len(s)) = s

RECURSIVE GCD(_, _)
GCD(a, b) == IF b = 0 THEN a ELSE GCD(b, a % b)

Abs(x) == IF x < 0 THEN -x ELSE x

\* exact rationals <<numerator, denominator>>, denominator > 0, in lowest terms
Rat(n, d) ==
    LET g == GCD(Abs(n), Abs(d))
        s == IF d < 0 THEN -1 ELSE 1
    IN  <<(s * n) \div g, (s * d) \div g>>

RatMul(a, b) == Rat(a[1] * b[1], a[2] * b[2])
RatDiv(a, b) == Rat(a[1] * b[2], a[2] * b[1])

\* Python pow(base, e) for an integer exponent
RatPow(a, e) == IF e >= 0 THEN Rat(a[1] ^ e, a[2] ^ e) ELSE Rat(a[2] ^ (-e), a[1] ^ (-e))

(***************************************************************************)
(* Python string methods on character sequences                            *)
(***************************************************************************)
\* str.find(c): 0-based index of the first occurrence, -1 if none
Find(s, c) ==
    IF \E i \in 1..Len(s) : s[i] = c
    THEN (CHOOSE i \in 1..Len(s) : s[i] = c /\ \A j \in 1..(i - 1) : s[j] # c) - 1
    ELSE -1

\* c in s
Contains(s, c) == \E i \in 1..Len(s) : s[i] = c

\* s.replace(c, d)
Replace(s, c, d) == [i \in 1..Len(s) |-> IF s[i] = c THEN d ELSE s[i]]

RECURSIVE LStrip(_)
LStrip(s) == IF s # <<>> /\ Head(s) = " " THEN LStrip(Tail(s)) ELSE s

RECURSIVE RStrip(_)
RStrip(s) == IF s # <<>> /\ s[Len(s)] = " " THEN RStrip(SubSeq(s, 1, Len(s) - 1)) ELSE s

\* s.strip()
Strip(s) == RStrip(LStrip(s))

(***************************************************************************)
(* obspy.fissures.util.use_first_and_raise_or_warn(list, type_str):        *)
(* empty list -> exception; more than one element -> warning; the first    *)
(* element is returned.                                                    *)
(***************************************************************************)
use_first_and_raise_or_warn(list, type_str) ==
    IF Len(list) = 0
    THEN [ok |-> FALSE, warn |-> <<>>]
    ELSE [ok |-> TRUE, value |-> list[1],
          warn |-> IF Len(list) > 1 THEN <<type_str>> ELSE <<>>]

(***************************************************************************)
(* Client.__init__                                                         *)
(*                                                                         *)
(* nsOK: the NameService object narrows to a NamingContext.                *)
(* netRes, seisRes: how each resolution block ends: "ok" (a handle is      *)
(* stored), "nil" (the last _narrow returns None, which is stored), or     *)
(* "raise" (an exception inside the try block: the attribute is never      *)
(* assigned and a warning is emitted).                                     *)
(* An attribute is "unset" (reading it raises AttributeError), "nil" or    *)
(* "handle".                                                               *)
(***************************************************************************)
Resolutions == {"ok", "nil", "raise"}

AttrAfter(res) == CASE res = "ok" -> "handle" [] res = "nil" -> "nil" [] OTHER -> "unset"

\* the closing check "if not self.netFind and not self.seisDC": Python evaluates
\* left to right and short-circuits; reading an attribute that was never
\* assigned raises AttributeError
InitFinalCheck(netFind, seisDC) ==
    IF netFind = "unset" THEN "AttributeError"
    ELSE IF netFind = "handle" THEN "ok"
    ELSE IF seisDC = "unset" THEN "AttributeError"
    ELSE IF seisDC = "handle" THEN "ok"
    ELSE "FissuresException"

\* sys.byteorder of the host the model is checked for
sys_byteorder == "little"

ClientInit(nsOK, netRes, seisRes) ==
    IF ~nsOK
    THEN [status |-> "FissuresException", warnings |-> <<>>,
          netFind |-> "unset", seisDC |-> "unset",
          byteorder |-> (sys_byteorder = "little")]
    ELSE [status |-> InitFinalCheck(AttrAfter(netRes), AttrAfter(seisRes)),
          warnings |-> (IF netRes = "raise" THEN <<"NetworkFinder">> ELSE <<>>)
                       \o (IF seisRes = "raise" THEN <<"DataCenter">> ELSE <<>>),
          netFind |-> AttrAfter(netRes), seisDC |-> AttrAfter(seisRes),
          byteorder |-> (sys_byteorder = "little")]

NoClient ==
    [state |-> "none", netFind |-> "unset", seisDC |-> "unset",
     byteorder |-> (sys_byteorder = "little")]

\* Client(...): a constructor that raises yields no object
Construct ==
    \E nsOK \in BOOLEAN, netRes \in Resolutions, seisRes \in Resolutions :
        LET r == ClientInit(nsOK, netRes, seisRes)
        IN  /\ op \in {"none", "init", "idle"}
            /\ op' = "init"
            /\ args' = [nsOK |-> nsOK]
            /\ env' = [netRes |-> netRes, seisRes |-> seisRes]
            /\ out' = [status |-> r.status, warnings |-> r.warnings]
            /\ client' = IF r.status = "ok"
                         THEN [state |-> "ready", netFind |-> r.netFind,
                               seisDC |-> r.seisDC, byteorder |-> r.byteorder]
                         ELSE NoClient

(***************************************************************************)
(* Times.  An instant is an integer number of seconds.  The Fissures       *)
(* servers and UTCDateTime.formatFissures exchange instants as fixed-width *)
(* zero-padded digit strings, here two digits; Python compares strings     *)
(* lexicographically.                                                      *)
(***************************************************************************)
\* UTCDateTime(t).formatFissures()
formatFissures(t) == <<t \div 10, t % 10>>

\* UTCDateTime(date_time)
UTCDateTime(d) == d[1] * 10 + d[2]

\* obspy.fissures.util.utcdatetime2Fissures(t): the Fissures Time structure
utcdatetime2Fissures(t) == formatFissures(t)

RECURSIVE StrLess(_, _)
\* Python a < b on strings
StrLess(a, b) ==
    IF b = <<>> THEN FALSE
    ELSE IF a = <<>> THEN TRUE
    ELSE IF Head(a) # Head(b) THEN Head(a) < Head(b)
    ELSE StrLess(Tail(a), Tail(b))

\* one remote (CORBA) request, or a call of another public method
Call(fn, a) == [fn |-> fn, a |-> a]

(***************************************************************************)
(* What the network finder answers during one call (env.dir):              *)
(*   nets      retrieve_by_code(network_id): network handles               *)
(*   stations  net.retrieve_stations(): stations with code, id, effective  *)
(*             time (formatted strings) and location                       *)
(*   channels  net.retrieve_for_station(sta.id): channels with code and id *)
(*   instOK    whether net.retrieve_instrumentation answers                *)
(*   stages    inst.the_response.stages                                    *)
(*   filters   stage.filters, each a union with discriminator d, value v   *)
(*   norms     stage.the_normalization                                     *)
(* The lists below a candidate are the same for every candidate of a       *)
(* level; what is derived from them is tagged with the candidate chosen.   *)
(***************************************************************************)

\* --- Client.getPAZ -------------------------------------------------------
PazFail(status, steps, calls, warnings) ==
    [status |-> status, paz |-> <<>>, steps |-> steps, calls |-> calls,
     warnings |-> warnings]

\* obspy.fissures.util.poleZeroFilter2PAZ(filter): poles and zeros of the filter
poleZeroFilter2PAZ(filter) == [poles_zeros |-> filter]

\* [sta for sta in net.retrieve_stations() if sta.id.station_code == station_id]
StationsByCode(stations, station_id) ==
    LET IsSta(s) == s.station_code = station_id IN SelectSeq(stations, IsSta)

\* the channels of the station whatever their code
ChannelsAll(channels, channel_id) == channels

\* [cha for cha in net.retrieve_for_station(sta.id) if cha.id.channel_code == channel_id]
ChannelsByCode(channels, channel_id) ==
    LET IsCha(c) == c.channel_code = channel_id IN SelectSeq(channels, IsCha)

\* [filter._v for filter in stage.filters if str(filter._d) == "POLEZERO"]
PoleZeroFilters(filters) ==
    LET IsPZ(f) == f.d = "POLEZERO"
        sel == SelectSeq(filters, IsPZ)
    IN  [i \in 1..Len(sel) |-> sel[i].v]

\* the lookup after the wildcard check and the network finder access
PazLookup(dir, network_id, station_id, channel_id, datetime) ==
    LET net == use_first_and_raise_or_warn(dir.nets, "network")
        sta == use_first_and_raise_or_warn(StationsByCode(dir.stations, station_id),
                                           "station")
        cha == use_first_and_raise_or_warn(ChannelsByCode(dir.channels, channel_id),
                                           "channel")
        stage == use_first_and_raise_or_warn(dir.stages, "response stage")
        filter == use_first_and_raise_or_warn(
                      [i \in 1..Len(PoleZeroFilters(dir.filters)) |->
                          <<stage.value, PoleZeroFilters(dir.filters)[i]>>],
                      "polezerofilter")
        norm == use_first_and_raise_or_warn(
                      [i \in 1..Len(dir.norms) |-> <<stage.value, dir.norms[i]>>],
                      "normalization")
        c1 == <<Call("retrieve_by_code", <<network_id>>)>>
        c2 == c1 \o <<Call("retrieve_stations", <<net.value>>)>>
        c3 == c2 \o <<Call("retrieve_for_station", <<net.value, sta.value.id>>)>>
        c4 == c3 \o <<Call("retrieve_instrumentation",
                           <<net.value, cha.value.id, utcdatetime2Fissures(datetime)>>)>>
        s1 == <<"network">>
        s2 == s1 \o <<"station">>
        s3 == s2 \o <<"channel">>
        s4 == s3 \o <<"instrumentation">>
        s5 == s4 \o <<"response stage">>
        s6 == s5 \o <<"polezerofilter">>
        s7 == s6 \o <<"normalization">>
        w2 == net.warn \o sta.warn
        w3 == w2 \o cha.warn
        w5 == w3 \o stage.warn
        w6 == w5 \o filter.warn
    IN  IF ~net.ok THEN PazFail("NotFound", s1, c1, <<>>)
        ELSE IF ~sta.ok THEN PazFail("NotFound", s2, c2, net.warn)
        ELSE IF ~cha.ok THEN PazFail("NotFound", s3, c3, w2)
        ELSE IF ~dir.instOK THEN PazFail("CORBAError", s4, c4, w3)
        ELSE IF ~stage.ok THEN PazFail("NotFound", s5, c4, w3)
        ELSE IF ~filter.ok THEN PazFail("NotFound", s6, c4, w5)
        ELSE IF ~norm.ok THEN PazFail("NotFound", s7, c4, w6)
        ELSE [status |-> "ok",
              paz |-> <<[poles_zeros |-> poleZeroFilter2PAZ(filter.value).poles_zeros,
                         gain |-> norm.value,
                         sensitivity |-> <<net.value, cha.value.id>>]>>,
              steps |-> s7, calls |-> c4, warnings |-> w6 \o norm.warn]

\* getPAZ with the wildcard check after the lookup
getPAZCheckLast(cl, dir, network_id, station_id, channel_id, datetime) ==
    IF cl.netFind # "handle"
    THEN PazFail("AttributeError", <<>>, <<>>, <<>>)
    ELSE LET r == PazLookup(dir, network_id, station_id, channel_id, datetime)
         IN  IF Contains(channel_id, "*")
             THEN PazFail("FissuresException", r.steps, r.calls, r.warnings)
             ELSE r

getPAZ(cl, dir, network_id, station_id, channel_id, datetime) ==
    IF Contains(channel_id, "*")
    THEN PazFail("FissuresException", <<>>, <<>>, <<>>)
    ELSE IF cl.netFind # "handle"
    THEN PazFail("AttributeError", <<>>, <<>>, <<>>)
    ELSE PazLookup(dir, network_id, station_id, channel_id, datetime)

\* --- Client._getStationObj and Client.getCoordinates ----------------------
\* the station filter with the bounds of the effective interval included
StationEffectiveClosed(sta, station_id, datetime) ==
    /\ station_id = sta.station_code
    /\ ~StrLess(datetime, sta.start_time)
    /\ ~StrLess(sta.end_time, datetime)

\* the station filter of _getStationObj: code and effective time, the instant
\* compared as a formatted string
StationEffective(sta, station_id, datetime) ==
    /\ station_id = sta.station_code
    /\ StrLess(sta.start_time, datetime)
    /\ StrLess(datetime, sta.end_time)

_getStationObj(cl, dir, network_id, station_id, datetime) ==
    LET net == use_first_and_raise_or_warn(dir.nets, "network")
        dt == formatFissures(datetime)
        Sel(s) == StationEffective(s, station_id, dt)
        sta == use_first_and_raise_or_warn(SelectSeq(dir.stations, Sel), "station")
        c1 == <<Call("retrieve_by_code", <<network_id>>)>>
        c2 == c1 \o <<Call("retrieve_stations", <<net.value>>)>>
    IN  IF cl.netFind # "handle"
        THEN [status |-> "AttributeError", sta |-> <<>>, calls |-> <<>>, warnings |-> <<>>]
        ELSE IF ~net.ok
        THEN [status |-> "NotFound", sta |-> <<>>, calls |-> c1, warnings |-> <<>>]
        ELSE IF ~sta.ok
        THEN [status |-> "NotFound", sta |-> <<>>, calls |-> c2, warnings |-> net.warn]
        ELSE [status |-> "ok", sta |-> <<sta.value>>, calls |-> c2,
              warnings |-> net.warn \o sta.warn]

getCoordinates(cl, dir, network_id, station_id, datetime) ==
    LET r == _getStationObj(cl, dir, network_id, station_id, datetime)
        sta == r.sta[1]
        w == r.warnings \o (IF sta.elevation_unit # "METER" THEN <<"elevation">> ELSE <<>>)
    IN  IF r.status # "ok"
        THEN [status |-> r.status, coords |-> <<>>, sta |-> <<>>, calls |-> r.calls,
              warnings |-> r.warnings]
        ELSE IF sta.loc_type # "GEOGRAPHIC"
        THEN [status |-> "NotImplementedError", coords |-> <<>>, sta |-> r.sta,
              calls |-> r.calls, warnings |-> w]
        ELSE [status |-> "ok",
              coords |-> <<[elevation |-> sta.id, latitude |-> sta.id,
                            longitude |-> sta.id]>>,
              sta |-> r.sta, calls |-> r.calls, warnings |-> w]

(***************************************************************************)
(* Client.getWaveform                                                      *)
(*                                                                         *)
(* A segment (one seismogram of the data centre's answer) has              *)
(*   channel_code, num_points, begin_time (formatted), unit,               *)
(*   interval = [value, power, multi_factor, exponent],                    *)
(*   chunks: each [compression, byte_order, num_points, values].           *)
(* A trace has network, station, channel, location, starttime (rational),  *)
(* sampling_rate (rational), npts, data, paz and coordinates (a sequence   *)
(* of at most one element each).                                           *)
(***************************************************************************)
STEIM1 == 10
STEIM2 == 11

\* channel_id of getPAZ when the caller passes none
DefaultPazChannel == <<"B", "H", "Z">>

\* the components in another order
ComponentsZEN == <<"Z", "E", "N">>

Components == <<"Z", "N", "E">>

RatAdd(a, b) == Rat(a[1] * b[2] + b[1] * a[2], a[2] * b[2])

\* the rate without the number of points: 1 / delta
SamplingRateOfInterval(interval, num_points) ==
    RatPow(RatMul(RatMul(<<interval.value, 1>>, RatPow(<<10, 1>>, interval.power)),
                  <<interval.multi_factor, 1>>),
           -interval.exponent)

\* delta = pow(value * pow(10, power) * multi_factor, exponent); sr = num_points / delta
SamplingRate(interval, num_points) ==
    LET delta == RatPow(RatMul(RatMul(<<interval.value, 1>>,
                                      RatPow(<<10, 1>>, interval.power)),
                               <<interval.multi_factor, 1>>),
                        interval.exponent)
    IN  RatDiv(<<num_points, 1>>, delta)

\* LibMSEED.unpack_steim1 / unpack_steim2: num_points decoded samples
unpack_steim1(values, num_points, swapflag) == SubSeq(values, 1, num_points)
unpack_steim2(values, num_points, swapflag) == SubSeq(values, 1, num_points)

\* the chunk loop with "continue" in place of the raise for another compression
RECURSIVE DecodeChunksSkipUnknown(_, _, _, _)
DecodeChunksSkipUnknown(cl, chunks, data, log) ==
    IF chunks = <<>> THEN [status |-> "ok", data |-> data, log |-> log]
    ELSE LET chunk == Head(chunks)
             swapflag == (cl.byteorder # chunk.byte_order)
             entry(routine) == [routine |-> routine, compression |-> chunk.compression,
                                num_points |-> chunk.num_points, swapflag |-> swapflag]
         IN  IF chunk.compression = STEIM2
             THEN DecodeChunksSkipUnknown(cl, Tail(chunks),
                      Append(data, unpack_steim2(chunk.values, chunk.num_points, swapflag)),
                      Append(log, entry("unpack_steim2")))
             ELSE IF chunk.compression = STEIM1
             THEN DecodeChunksSkipUnknown(cl, Tail(chunks),
                      Append(data, unpack_steim1(chunk.values, chunk.num_points, swapflag)),
                      Append(log, entry("unpack_steim1")))
             ELSE DecodeChunksSkipUnknown(cl, Tail(chunks), data, log)

\* the loop over sei.data.encoded_values: the decoded arrays, one per chunk, and
\* the codec calls made; stops at the first chunk with another compression
RECURSIVE DecodeChunks(_, _, _, _)
DecodeChunks(cl, chunks, data, log) ==
    IF chunks = <<>> THEN [status |-> "ok", data |-> data, log |-> log]
    ELSE LET chunk == Head(chunks)
             swapflag == (cl.byteorder # chunk.byte_order)
             entry(routine) == [routine |-> routine, compression |-> chunk.compression,
                                num_points |-> chunk.num_points, swapflag |-> swapflag]
         IN  IF chunk.compression = STEIM2
             THEN DecodeChunks(cl, Tail(chunks),
                      Append(data, unpack_steim2(chunk.values, chunk.num_points, swapflag)),
                      Append(log, entry("unpack_steim2")))
             ELSE IF chunk.compression = STEIM1
             THEN DecodeChunks(cl, Tail(chunks),
                      Append(data, unpack_steim1(chunk.values, chunk.num_points, swapflag)),
                      Append(log, entry("unpack_steim1")))
             ELSE [status |-> "NotImplementedError", data |-> data, log |-> log]

\* time of the i-th sample (i = 1..) of a trace
SampleTime(tr, i) == RatAdd(tr.starttime, Rat((i - 1) * tr.sampling_rate[2], tr.sampling_rate[1]))

InWindow(t, start, end) == start * t[2] <= t[1] /\ t[1] <= end * t[2]

\* Trace.trim(start, end): the samples of the window [start, end] are kept
TrimTrace(tr, start, end) ==
    LET keep == {i \in 1..Len(tr.data) : InWindow(SampleTime(tr, i), start, end)}
        lo == CHOOSE i \in keep : \A j \in keep : i <= j
        hi == CHOOSE i \in keep : \A j \in keep : j <= i
    IN  IF keep = {} THEN [tr EXCEPT !.data = <<>>, !.npts = 0]
        ELSE [tr EXCEPT !.data = SubSeq(tr.data, lo, hi), !.npts = hi - lo + 1,
                        !.starttime = SampleTime(tr, lo)]

\* Stream.trim(start, end)
Trim(st, start, end) == [k \in 1..Len(st) |-> TrimTrace(st[k], start, end)]

\* the stream left as built
TrimStreamNone(st, a) == st

\* line 244: st.trim(start_datetime, end_datetime)
TrimStream(st, a) == Trim(st, a.start_datetime, a.end_datetime)

\* the segment loop merging a segment into the record before it when both are
\* of one channel
RECURSIVE BuildStreamMerged(_, _, _, _)
BuildStreamMerged(cl, a, seis, acc) ==
    IF seis = <<>> THEN [acc EXCEPT !.status = "ok"]
    ELSE LET sei == Head(seis)
             dec == DecodeChunks(cl, sei.chunks, <<>>, <<>>)
             tr == [network |-> sei.network_code, station |-> sei.station_code,
                    channel |-> sei.channel_code, location |-> Strip(sei.site_code),
                    starttime |-> <<UTCDateTime(sei.begin_time), 1>>,
                    sampling_rate |-> SamplingRate(sei.interval, sei.num_points),
                    npts |-> sei.num_points, data |-> Flatten(dec.data),
                    paz |-> <<>>, coordinates |-> <<>>]
             n == Len(acc.raw)
         IN  IF sei.num_points = 0 THEN BuildStreamMerged(cl, a, Tail(seis), acc)
             ELSE IF sei.unit # "SECOND" THEN [acc EXCEPT !.status = "FissuresException"]
             ELSE IF dec.status # "ok" THEN [acc EXCEPT !.status = dec.status]
             ELSE IF dec.data = <<>> THEN [acc EXCEPT !.status = "ValueError"]
             ELSE IF Len(tr.data) # tr.npts THEN [acc EXCEPT !.status = "VerifyError"]
             ELSE IF n > 0 /\ acc.raw[n].channel = tr.channel
             THEN BuildStreamMerged(cl, a, Tail(seis),
                      [acc EXCEPT !.raw[n].data = @ \o tr.data,
                                  !.raw[n].npts = @ + tr.npts,
                                  !.decoded[n] = @ \o dec.log])
             ELSE BuildStreamMerged(cl, a, Tail(seis),
                      [acc EXCEPT !.raw = Append(@, tr), !.decoded = Append(@, dec.log)])

\* the segment loop with "continue" in place of the raise for a wrong unit
RECURSIVE BuildStreamSkipUnit(_, _, _, _)
BuildStreamSkipUnit(cl, a, seis, acc) ==
    IF seis = <<>> THEN [acc EXCEPT !.status = "ok"]
    ELSE LET sei == Head(seis)
             dec == DecodeChunks(cl, sei.chunks, <<>>, <<>>)
             tr == [network |-> sei.network_code, station |-> sei.station_code,
                    channel |-> sei.channel_code, location |-> Strip(sei.site_code),
                    starttime |-> <<UTCDateTime(sei.begin_time), 1>>,
                    sampling_rate |-> SamplingRate(sei.interval, sei.num_points),
                    npts |-> sei.num_points, data |-> Flatten(dec.data),
                    paz |-> <<>>, coordinates |-> <<>>]
         IN  IF sei.num_points = 0 THEN BuildStreamSkipUnit(cl, a, Tail(seis), acc)
             ELSE IF sei.unit # "SECOND" THEN BuildStreamSkipUnit(cl, a, Tail(seis), acc)
             ELSE IF dec.status # "ok" THEN [acc EXCEPT !.status = dec.status]
             ELSE IF dec.data = <<>> THEN [acc EXCEPT !.status = "ValueError"]
             ELSE IF Len(tr.data) # tr.npts THEN [acc EXCEPT !.status = "VerifyError"]
             ELSE BuildStreamSkipUnit(cl, a, Tail(seis),
                      [acc EXCEPT !.raw = Append(@, tr), !.decoded = Append(@, dec.log)])

\* the loop "for sei in seis" (lines 195-243): acc holds the traces appended so
\* far (raw) and the codec calls of each (decoded)
RECURSIVE BuildStream(_, _, _, _)
BuildStream(cl, a, seis, acc) ==
    IF seis = <<>> THEN [acc EXCEPT !.status = "ok"]
    ELSE LET sei == Head(seis)
             dec == DecodeChunks(cl, sei.chunks, <<>>, <<>>)
             tr == [network |-> sei.network_code, station |-> sei.station_code,
                    channel |-> sei.channel_code, location |-> Strip(sei.site_code),
                    starttime |-> <<UTCDateTime(sei.begin_time), 1>>,
                    sampling_rate |-> SamplingRate(sei.interval, sei.num_points),
                    npts |-> sei.num_points, data |-> Flatten(dec.data),
                    paz |-> <<>>, coordinates |-> <<>>]
         IN  IF sei.num_points = 0 THEN BuildStream(cl, a, Tail(seis), acc)
             ELSE IF sei.unit # "SECOND" THEN [acc EXCEPT !.status = "FissuresException"]
             ELSE IF dec.status # "ok" THEN [acc EXCEPT !.status = dec.status]
             ELSE IF dec.data = <<>> THEN [acc EXCEPT !.status = "ValueError"]
             ELSE IF Len(tr.data) # tr.npts THEN [acc EXCEPT !.status = "VerifyError"]
             ELSE BuildStream(cl, a, Tail(seis),
                      [acc EXCEPT !.raw = Append(@, tr), !.decoded = Append(@, dec.log)])

WaveOut(status, st, raw, decoded, calls, warnings) ==
    [status |-> status, st |-> st, raw |-> raw, decoded |-> decoded, calls |-> calls,
     warnings |-> warnings]

\* lines 245-267: the optional PAZ and coordinates lookups on the trimmed stream
Enrich(cl, a, e, st, raw, decoded, calls) ==
    LET wild == a.getPAZ /\ Contains(a.channel_id, "*")
        w1 == IF wild THEN <<"wildcard">> ELSE <<>>
        paz == getPAZ(cl, e.dir, a.network_id, a.station_id, DefaultPazChannel,
                      a.start_datetime)
        c1 == IF a.getPAZ
              THEN calls \o <<Call("getPAZ", <<a.network_id, a.station_id,
                                               DefaultPazChannel, a.start_datetime>>)>>
                         \o paz.calls
              ELSE calls
        wp == IF a.getPAZ THEN w1 \o paz.warnings ELSE <<>>
        st1 == IF a.getPAZ THEN [k \in 1..Len(st) |-> [st[k] EXCEPT !.paz = paz.paz]]
               ELSE st
        co == getCoordinates(cl, e.dir, a.network_id, a.station_id, a.start_datetime)
        c2 == IF a.getCoordinates
              THEN c1 \o <<Call("getCoordinates", <<a.network_id, a.station_id,
                                                    a.start_datetime>>)>> \o co.calls
              ELSE c1
        wc == IF a.getCoordinates THEN wp \o co.warnings ELSE wp
        st2 == IF a.getCoordinates
               THEN [k \in 1..Len(st1) |-> [st1[k] EXCEPT !.coordinates = co.coords]]
               ELSE st1
    IN  IF wild /\ Len(a.channel_id) < 3
        THEN WaveOut("FissuresException", <<>>, raw, decoded, calls, <<>>)
        ELSE IF a.getPAZ /\ paz.status # "ok"
        THEN WaveOut(paz.status, <<>>, raw, decoded, c1, wp)
        ELSE IF a.getCoordinates /\ co.status # "ok"
        THEN WaveOut(co.status, <<>>, raw, decoded, c2, wc)
        ELSE WaveOut("ok", st2, raw, decoded, c2, wc)

\* lines 187-267: one retrieval, for the channel code as given
Retrieve(cl, a, e) ==
    LET net == use_first_and_raise_or_warn(e.dir.nets, "network")
        \* _getChannelObj: a blank location is sent as two spaces
        location_id == IF Strip(a.location_id) = <<>> THEN <<" ", " ">> ELSE a.location_id
        c1 == <<Call("retrieve_by_code", <<a.network_id>>)>>
        c2 == c1 \o <<Call("retrieve_channels_by_code",
                           <<net.value, a.station_id, location_id, a.channel_id>>)>>
        \* _getSeisObj
        c3 == c2 \o <<Call("retrieve_seismograms",
                           <<a.network_id, a.station_id, location_id, a.channel_id,
                             utcdatetime2Fissures(a.start_datetime),
                             utcdatetime2Fissures(a.end_datetime)>>)>>
        answer == e.seis[a.channel_id]
        seis == [k \in 1..Len(answer) |->
                    [channel_code |-> answer[k].channel_code,
                     network_code |-> a.network_id, station_code |-> a.station_id,
                     site_code |-> location_id, num_points |-> answer[k].num_points,
                     begin_time |-> answer[k].begin_time, unit |-> answer[k].unit,
                     interval |-> answer[k].interval, chunks |-> answer[k].chunks]]
        built == BuildStream(cl, a, seis, [status |-> "ok", raw |-> <<>>, decoded |-> <<>>])
    IN  IF cl.netFind # "handle"
        THEN WaveOut("AttributeError", <<>>, <<>>, <<>>, <<>>, <<>>)
        ELSE IF ~net.ok
        THEN WaveOut("NotFound", <<>>, <<>>, <<>>, c1, <<>>)
        ELSE IF cl.seisDC # "handle"
        THEN WaveOut("AttributeError", <<>>, <<>>, <<>>, c2, net.warn)
        ELSE IF built.status # "ok"
        THEN WaveOut(built.status, <<>>, built.raw, built.decoded, c3, net.warn)
        ELSE LET r == Enrich(cl, a, e, TrimStream(built.raw, a), built.raw,
                             built.decoded, c3)
             IN  [r EXCEPT !.warnings = net.warn \o @]

\* lines 178: the component wildcard that getWaveform intercepts
IsComponentWildcard(channel_id) == Len(channel_id) = 3 /\ Find(channel_id, "*") = 2

RECURSIVE getWaveform(_, _, _)
\* lines 179-185: "st += self.getWaveform(channel_id=cha, **kwargs)" for each
\* component in turn; an exception of a recursive call leaves the loop
RECURSIVE FanOut(_, _, _, _, _)
FanOut(cl, a, e, comps, acc) ==
    IF comps = <<>> THEN acc
    ELSE LET cha == SubSeq(a.channel_id, 1, 2) \o <<Head(comps)>>
             r == getWaveform(cl, [a EXCEPT !.channel_id = cha], e)
             sofar == WaveOut(r.status, acc.st \o r.st, acc.raw \o r.raw,
                              acc.decoded \o r.decoded, acc.calls \o r.calls,
                              acc.warnings \o r.warnings)
         IN  IF r.status # "ok" THEN [sofar EXCEPT !.st = <<>>]
             ELSE FanOut(cl, a, e, Tail(comps), sofar)

getWaveform(cl, a, e) ==
    IF IsComponentWildcard(a.channel_id)
    THEN FanOut(cl, a, e, Components, WaveOut("ok", <<>>, <<>>, <<>>, <<>>, <<>>))
    ELSE Retrieve(cl, a, e)

(***************************************************************************)
(* Bounds and the sets the inputs of the calls are drawn from              *)
(***************************************************************************)
MaxSegs == 2     \* segments in one answer of the data centre
MaxChunks == 2   \* chunks in one segment
MaxCand == 2     \* candidates in one list answered by the network finder

\* --- network finder answers ----------------------------------------------
Station(code, id, start, end, loc_type, elevation_unit) ==
    [station_code |-> code, id |-> id, start_time |-> formatFissures(start),
     end_time |-> formatFissures(end), loc_type |-> loc_type,
     elevation_unit |-> elevation_unit]

PlainStation(code, k) == Station(code, k, 0, 99, "GEOGRAPHIC", "METER")
ChannelObj(code, k) == [channel_code |-> code, id |-> k]
\* lists given by the kind of each element; the element's id is its position
PlainStations(codes) == [k \in 1..Len(codes) |-> PlainStation(codes[k], k)]
ChannelObjs(codes) == [k \in 1..Len(codes) |-> ChannelObj(codes[k], k)]

FilterObj(d, k) == [d |-> d, v |-> k]

StationCodes == {"APE", "FUR"}
ChannelCodes == {<<"B", "H", "Z">>, <<"S", "H", "Z">>}
FilterKinds == {"POLEZERO", "COEFFICIENTS"}
NetLists == {SubSeq(<<"net1", "net2", "net3">>, 1, n) : n \in 0..MaxCand}
IdLists == {[k \in 1..n |-> k] : n \in 0..MaxCand}

\* the answers of the network finder for a lookup of channel_id: at one level
\* the candidates are any list up to MaxCand, at the others one or two
\* candidates that match
Dirs(channel_id) ==
    LET code == Replace(channel_id, "*", "Z")
        few == [nets |-> {<<"net1">>, <<"net1", "net2">>},
                stations |-> {<<"APE">>, <<"APE", "APE">>},
                channels |-> {<<code>>, <<code, code>>},
                instOK |-> {TRUE},
                stages |-> {<<1>>, <<1, 2>>},
                filters |-> {<<"POLEZERO">>, <<"POLEZERO", "POLEZERO">>},
                norms |-> {<<1>>, <<1, 2>>}]
        many == [nets |-> NetLists,
                 stations |-> SeqsUpTo(StationCodes, MaxCand),
                 channels |-> SeqsUpTo(ChannelCodes, MaxCand),
                 instOK |-> BOOLEAN,
                 stages |-> IdLists,
                 filters |-> SeqsUpTo(FilterKinds, MaxCand),
                 norms |-> IdLists]
        pick(p, level) == IF p = level THEN many[level] ELSE few[level]
    IN  UNION {{[nets |-> n, stations |-> PlainStations(s),
                 channels |-> ChannelObjs(c), instOK |-> i, stages |-> g,
                 filters |-> [k \in 1..Len(f) |-> FilterObj(f[k], k)], norms |-> m] :
                   n \in pick(p, "nets"), s \in pick(p, "stations"),
                   c \in pick(p, "channels"), i \in pick(p, "instOK"),
                   g \in pick(p, "stages"), f \in pick(p, "filters"),
                   m \in pick(p, "norms")} :
               p \in DOMAIN many}

GoodDir ==
    [nets |-> <<"net1">>, stations |-> <<PlainStation("APE", 1)>>,
     channels |-> <<ChannelObj(<<"B", "H", "Z">>, 1)>>, instOK |-> TRUE,
     stages |-> <<1>>, filters |-> <<FilterObj("POLEZERO", 1)>>, norms |-> <<1>>]

DirsSmall ==
    {GoodDir,
     [GoodDir EXCEPT !.nets = <<>>],
     [GoodDir EXCEPT !.nets = <<"net1", "net2">>,
                     !.stations = <<PlainStation("APE", 1), PlainStation("APE", 2)>>],
     [GoodDir EXCEPT !.filters = <<FilterObj("COEFFICIENTS", 1)>>],
     [GoodDir EXCEPT !.stations = <<Station("APE", 1, 0, 8, "GEOGRAPHIC", "METER")>>]}

\* --- data centre answers -------------------------------------------------
Chunk(compression, byte_order, num_points, base) ==
    [compression |-> compression, byte_order |-> byte_order, num_points |-> num_points,
     values |-> [i \in 1..num_points |-> base + i]]

ChunkSet ==
    {Chunk(STEIM1, FALSE, 2, 10), Chunk(STEIM2, TRUE, 1, 20), Chunk(12, FALSE, 1, 30)}

ChunkPoints(chunks) == SumSeq([k \in 1..Len(chunks) |-> chunks[k].num_points])

\* the interval of 3 s that the num_points samples of a segment span
Interval3 == [value |-> 3, power |-> 0, multi_factor |-> 1, exponent |-> 1]

\* a segment before the data centre stamps channel and begin time on it
SegTemplate(num_points, unit, chunks) ==
    [num_points |-> num_points, unit |-> unit, interval |-> Interval3, chunks |-> chunks]

Units == {"SECOND", "MINUTE"}

\* every segment whose declared length is 0 or the length of its chunks, one
\* less or one more
SegRich ==
    UNION {{SegTemplate(n, u, c) :
               n \in {0, ChunkPoints(c), ChunkPoints(c) + 1} \cup
                     (IF ChunkPoints(c) > 0 THEN {ChunkPoints(c) - 1} ELSE {}),
               u \in Units} :
           c \in SeqsUpTo(ChunkSet, MaxChunks)}

SegCore ==
    {SegTemplate(2, "SECOND", <<Chunk(STEIM1, FALSE, 2, 10)>>),
     SegTemplate(1, "SECOND", <<Chunk(STEIM2, TRUE, 1, 20)>>),
     SegTemplate(3, "SECOND", <<Chunk(STEIM1, FALSE, 2, 10), Chunk(STEIM2, TRUE, 1, 20)>>),
     SegTemplate(0, "SECOND", <<>>),
     SegTemplate(2, "MINUTE", <<Chunk(STEIM1, FALSE, 2, 10)>>),
     SegTemplate(1, "SECOND", <<Chunk(12, FALSE, 1, 30)>>)}

\* a segment as the data centre usually answers it, and a keep-alive one
SegPlain ==
    {SegTemplate(2, "SECOND", <<Chunk(STEIM1, FALSE, 2, 10)>>),
     SegTemplate(0, "SECOND", <<>>)}

\* answers in which one segment is any of SegRich and the others are of SegPlain
TemplatesBig ==
    {<<>>} \cup
    UNION {{[k \in 1..n |-> IF k = p THEN rich ELSE plain[k]] :
               rich \in SegRich, plain \in [1..n -> SegPlain]} :
           n \in 1..MaxSegs, p \in 1..MaxSegs}

TemplatesSmall == SeqsUpTo({s \in SegCore : s.num_points # 0}, MaxSegs)

TemplatesTiny == {<<>>, <<SegTemplate(2, "SECOND", <<Chunk(STEIM1, FALSE, 2, 10)>>)>>}

\* the k-th segment of an answer begins 3 s after the one before it
SegBegin(k) == 8 + 3 * (k - 1)

\* a data centre that is asked for a wildcard code answers with concrete
\* channels, here the Z ones
Answer(code, templates) ==
    [k \in 1..Len(templates) |->
        [channel_code |-> Replace(code, "*", "Z"),
         num_points |-> templates[k].num_points,
         begin_time |-> formatFissures(SegBegin(k)), unit |-> templates[k].unit,
         interval |-> templates[k].interval, chunks |-> templates[k].chunks]]

\* the channel codes a call asks the data centre for
Requested(channel_id) ==
    IF IsComponentWildcard(channel_id)
    THEN {SubSeq(channel_id, 1, 2) \o <<Components[k]>> : k \in 1..Len(Components)}
    ELSE {channel_id}

\* the answers to a call in which one channel's answer is any of rich and the
\* answers for the other channels asked for are of plain
SeisAnswers(channel_id, rich, plain) ==
    UNION {{[c \in Requested(channel_id) |-> Answer(c, IF c = c0 THEN r ELSE t[c])] :
               r \in rich, t \in [Requested(channel_id) -> plain]} :
           c0 \in Requested(channel_id)}

ChannelIds ==
    {<<"S", "H", "Z">>, <<"S", "H", "N">>, <<"S", "H", "*">>, <<"S", "*", "*">>,
     <<"*", "H", "Z">>, <<"*">>}

Windows == {<<8, 14>>, <<9, 12>>, <<11, 11>>}

WaveArgs(channel_id, location_id, window, paz, coords) ==
    [network_id |-> "GE", station_id |-> "APE", location_id |-> location_id,
     channel_id |-> channel_id, start_datetime |-> window[1],
     end_datetime |-> window[2], getPAZ |-> paz, getCoordinates |-> coords]

\* the calls of getWaveform: any answer for one concrete channel; the component
\* wildcard with small answers; every channel code, flag and directory with the
\* smallest answers
WaveCases ==
    {[a |-> WaveArgs(<<"S", "H", "Z">>, <<>>, w, FALSE, FALSE),
      e |-> [dir |-> GoodDir, seis |-> s]] :
        w \in Windows, s \in SeisAnswers(<<"S", "H", "Z">>, TemplatesBig, TemplatesTiny)}
    \cup
    {[a |-> WaveArgs(<<"S", "H", "*">>, <<>>, w, FALSE, FALSE),
      e |-> [dir |-> GoodDir, seis |-> s]] :
        w \in Windows, s \in SeisAnswers(<<"S", "H", "*">>, TemplatesSmall, TemplatesTiny)}
    \cup
    UNION {{[a |-> WaveArgs(c, l, <<9, 12>>, p, g), e |-> [dir |-> d, seis |-> s]] :
               l \in {<<>>, <<"0", "0">>}, p \in BOOLEAN, g \in BOOLEAN,
               d \in DirsSmall, s \in SeisAnswers(c, TemplatesTiny, TemplatesTiny)} :
           c \in ChannelIds}

\* a client without both handles fails before the data centre answers
WaveCasesFor(cl) ==
    IF cl.netFind = "handle" /\ cl.seisDC = "handle" THEN WaveCases
    ELSE {x \in WaveCases : x.e.dir = GoodDir /\ ~x.a.getPAZ /\ ~x.a.getCoordinates
                            /\ x.a.location_id = <<>>
                            /\ \A c \in DOMAIN x.e.seis : x.e.seis[c] = <<>>}

PazChannelIds == {<<"B", "H", "Z">>, <<"S", "H", "Z">>, <<"B", "H", "*">>}

PazCases ==
    UNION {{[a |-> [network_id |-> "GE", station_id |-> "APE", channel_id |-> c,
                    datetime |-> 10],
             e |-> [dir |-> d]] : d \in Dirs(c)} :
           c \in PazChannelIds}

\* a client without the finder fails before the finder answers
PazCasesFor(cl) ==
    IF cl.netFind = "handle" THEN PazCases
    ELSE {x \in PazCases : x.e.dir = GoodDir}

\* stations for the coordinate lookup: effective intervals around the instants
\* asked for, and one station each with another location type and unit
CoordStations ==
    {[code |-> c, start |-> i[1], end |-> i[2], loc_type |-> "GEOGRAPHIC",
      elevation_unit |-> "METER"] :
        c \in StationCodes, i \in {<<8, 10>>, <<9, 11>>, <<10, 12>>, <<11, 13>>}}
    \cup
    {[code |-> "APE", start |-> 9, end |-> 11, loc_type |-> "CARTESIAN",
      elevation_unit |-> "METER"],
     [code |-> "APE", start |-> 9, end |-> 11, loc_type |-> "GEOGRAPHIC",
      elevation_unit |-> "FEET"]}

CoordStation(s, k) == Station(s.code, k, s.start, s.end, s.loc_type, s.elevation_unit)

CoordCases ==
    {[a |-> [network_id |-> "GE", station_id |-> "APE", datetime |-> t],
      e |-> [dir |-> [GoodDir EXCEPT !.nets = n,
                                     !.stations = [k \in 1..Len(s) |-> CoordStation(s[k], k)]]]] :
        t \in {9, 10}, n \in NetLists, s \in SeqsUpTo(CoordStations, MaxCand)}

CoordCasesFor(cl) ==
    {x \in CoordCases :
        (cl.netFind # "handle" \/ x.e.dir.nets = <<>>) => x.e.dir.stations = <<>>}

(***************************************************************************)
(* The calls.  The client is synchronous: a call starts when the caller    *)
(* holds no pending outcome, and its outcome is there when it ends.        *)
(***************************************************************************)
Idle == op \in {"none", "init", "idle"}

GetWaveformCall ==
    /\ Idle
    /\ client.state = "ready"
    /\ \E x \in WaveCasesFor(client) :
        /\ op' = "getWaveform"
        /\ args' = x.a
        /\ env' = x.e
        /\ out' = getWaveform(client, x.a, x.e)
    /\ UNCHANGED client

GetPAZCall ==
    /\ Idle
    /\ client.state = "ready"
    /\ \E x \in PazCasesFor(client) :
        /\ op' = "getPAZ"
        /\ args' = x.a
        /\ env' = x.e
        /\ out' = getPAZ(client, x.e.dir, x.a.network_id, x.a.station_id,
                         x.a.channel_id, x.a.datetime)
    /\ UNCHANGED client

GetCoordinatesCall ==
    /\ Idle
    /\ client.state = "ready"
    /\ \E x \in CoordCasesFor(client) :
        /\ op' = "getCoordinates"
        /\ args' = x.a
        /\ env' = x.e
        /\ out' = getCoordinates(client, x.e.dir, x.a.network_id, x.a.station_id,
                                 x.a.datetime)
    /\ UNCHANGED client

\* the caller takes the outcome of the last call
Return ==
    /\ ~Idle
    /\ op' = "idle"
    /\ args' = <<>>
    /\ env' = <<>>
    /\ out' = <<>>
    /\ UNCHANGED client

Init ==
    /\ client = NoClient
    /\ op = "none"
    /\ args = <<>>
    /\ env = <<>>
    /\ out = <<>>

Next ==
    \/ Construct
    \/ GetWaveformCall
    \/ GetPAZCall
    \/ GetCoordinatesCall
    \/ Return

Spec == Init /\ [][Next]_vars

(***************************************************************************)
(* The sampling rate computation of getWaveform (lines 202-213) on its     *)
(* own: the sampling information of one segment is drawn, then the rate    *)
(* is computed from it.                                                    *)
(***************************************************************************)
MaxValue == 3    \* largest interval value and multi_factor

RateInputs ==
    [interval : [value : 1..MaxValue, power : {-2, -1, 0, 1},
                 multi_factor : 1..MaxValue, exponent : {-1, 1}],
     num_points : {1, 3, 30000}]

InitRate ==
    /\ client = NoClient
    /\ op = "sampling_info"
    /\ args \in RateInputs
    /\ env = <<>>
    /\ out = <<>>

ComputeRate ==
    /\ op = "sampling_info"
    /\ op' = "sampling_rate"
    /\ out' = <<SamplingRate(args.interval, args.num_points)>>
    /\ UNCHANGED <<client, args, env>>

NextRate == ComputeRate

SpecRate == InitRate /\ [][NextRate]_vars

(***************************************************************************)
(* Claims                                                                  *)
(***************************************************************************)

\* C1: construction with a reachable name service: it fails when both the
\* NetworkFinder and the DataCenter fail to resolve; when exactly one of them
\* fails it emits one warning, completes, and the client holds the handle of
\* the service that did resolve.
C1_PartialConstruction ==
    (op = "init" /\ args.nsOK) =>
        LET netFailed == env.netRes = "raise"
            seisFailed == env.seisRes = "raise"
        IN  /\ (netFailed /\ seisFailed) => (out.status # "ok" /\ client.state = "none")
            /\ (netFailed # seisFailed) =>
                   /\ out.status = "ok"
                   /\ client.state = "ready"
                   /\ Len(out.warnings) = 1
                   /\ seisFailed => client.netFind = "handle"
                   /\ netFailed => client.seisDC = "handle"

\* C4 as stated: interval value 1, power -2, multi_factor 1, exponent -1 and
\* num_points 30000 give a sampling rate of 100.0 Hz.
C4_Interval == [value |-> 1, power |-> -2, multi_factor |-> 1, exponent |-> -1]

C4_Rate100 ==
    (op = "sampling_rate" /\ args.interval = C4_Interval /\ args.num_points = 30000)
        => out = <<Rat(100, 1)>>

\* C4 amended: for that segment the sampling rate is 300.0 Hz, the 30000 points
\* divided by delta = (1 * 10^-2 * 1)^-1 = 100.
C4_Rate300 ==
    (op = "sampling_rate" /\ args.interval = C4_Interval /\ args.num_points = 30000)
        => out = <<Rat(300, 1)>>

C4_Witness ==
    op = "sampling_rate" /\ args.interval = C4_Interval /\ args.num_points = 30000
        /\ Len(out) = 1

(***************************************************************************)
(* What a getWaveform call asked the data centre and what it was answered  *)
(***************************************************************************)
IsRetrieval(c) == c.fn = "retrieve_seismograms"

\* the retrieve_seismograms requests of the last call, in the order issued
Retrievals == SelectSeq(out.calls, IsRetrieval)

RetrievedCodes == [k \in 1..Len(Retrievals) |-> Retrievals[k].a[4]]

\* the segments answered to those requests, in that order
AnswersInOrder == Flatten([k \in 1..Len(RetrievedCodes) |-> env.seis[RetrievedCodes[k]]])

IsNonEmpty(sei) == sei.num_points # 0

NonEmptyAnswers == SelectSeq(AnswersInOrder, IsNonEmpty)

ChunkValues(sei) == Flatten([j \in 1..Len(sei.chunks) |-> sei.chunks[j].values])

\* the three codes of a component wildcard, in the order Z, N, E
ZNE(channel_id) ==
    <<SubSeq(channel_id, 1, 2) \o <<"Z">>, SubSeq(channel_id, 1, 2) \o <<"N">>,
      SubSeq(channel_id, 1, 2) \o <<"E">>>>

\* the same call for one concrete channel code
Single(code) == Retrieve(client, [args EXCEPT !.channel_id = code], env)

FanOutShape ==
    /\ RetrievedCodes = ZNE(args.channel_id)
    /\ out.calls = Single(ZNE(args.channel_id)[1]).calls
                   \o Single(ZNE(args.channel_id)[2]).calls
                   \o Single(ZNE(args.channel_id)[3]).calls
    /\ out.st = Single(ZNE(args.channel_id)[1]).st \o Single(ZNE(args.channel_id)[2]).st
                \o Single(ZNE(args.channel_id)[3]).st

C3_OneRecordPerChannel ==
    (op = "getWaveform" /\ out.status = "ok")
        => Len(out.st) <= Cardinality({NonEmptyAnswers[k].channel_code :
                                          k \in 1..Len(NonEmptyAnswers)})

\* C3 amended: one record is built per non-empty segment, from the chunks of
\* that segment alone and in the order received; the records returned are at
\* most as many as the non-empty segments, and may be more than the channels.
C3_OneRecordPerSegment ==
    (op = "getWaveform" /\ out.status = "ok")
        => /\ Len(out.raw) = Len(NonEmptyAnswers)
           /\ Len(out.st) <= Len(out.raw)
           /\ \A k \in 1..Len(out.raw) :
                 /\ out.raw[k].channel = NonEmptyAnswers[k].channel_code
                 /\ out.raw[k].npts = NonEmptyAnswers[k].num_points
                 /\ out.raw[k].data = ChunkValues(NonEmptyAnswers[k])

C3_Witness ==
    /\ op = "getWaveform"
    /\ args.channel_id = <<"S", "H", "Z">>
    /\ out.status = "ok"
    /\ Len(out.st) = 2
    /\ out.st[1].channel = out.st[2].channel
    /\ Len(AnswersInOrder) = 2

\* C5: if a non-empty segment answered during a getWaveform call has a unit
\* other than SECOND, the call fails and returns no record, whatever was
\* built or obtained before.
C5_WrongUnitFails ==
    (op = "getWaveform"
        /\ \E k \in 1..Len(NonEmptyAnswers) : NonEmptyAnswers[k].unit # "SECOND")
        => (out.status # "ok" /\ out.st = <<>>)

C5_Witness ==
    /\ op = "getWaveform"
    /\ IsComponentWildcard(args.channel_id)
    /\ out.status = "FissuresException"
    /\ Len(out.raw) >= 1
    /\ out.st = <<>>
    /\ \E k \in 1..Len(NonEmptyAnswers) : NonEmptyAnswers[k].unit # "SECOND"

\* C6: a chunk is decoded by unpack_steim1 exactly when its tag is 10 and by
\* unpack_steim2 exactly when it is 11; a call that returns has met no other
\* tag in a non-empty segment, and every record holds all chunks of its
\* segment, in order.
C6_OnlySteimDecoded ==
    op = "getWaveform"
        => /\ \A k \in 1..Len(out.decoded) : \A j \in 1..Len(out.decoded[k]) :
                 /\ out.decoded[k][j].compression \in {10, 11}
                 /\ out.decoded[k][j].routine = "unpack_steim1"
                        <=> out.decoded[k][j].compression = 10
                 /\ out.decoded[k][j].routine = "unpack_steim2"
                        <=> out.decoded[k][j].compression = 11
           /\ out.status = "ok" =>
                 /\ Len(out.raw) = Len(out.decoded)
                 /\ \A k \in 1..Len(NonEmptyAnswers) :
                       /\ \A j \in 1..Len(NonEmptyAnswers[k].chunks) :
                             NonEmptyAnswers[k].chunks[j].compression \in {10, 11}
                       /\ k <= Len(out.raw) =>
                             /\ Len(out.decoded[k]) = Len(NonEmptyAnswers[k].chunks)
                             /\ out.raw[k].data = ChunkValues(NonEmptyAnswers[k])
           /\ (\E k \in 1..Len(NonEmptyAnswers) :
                  \E j \in 1..Len(NonEmptyAnswers[k].chunks) :
                      NonEmptyAnswers[k].chunks[j].compression \notin {10, 11})
                 => (out.status # "ok" /\ out.st = <<>>)

C6_Witness ==
    /\ op = "getWaveform"
    /\ out.status = "NotImplementedError"
    /\ out.st = <<>>
    /\ \E k \in 1..Len(NonEmptyAnswers) :
          /\ Len(NonEmptyAnswers[k].chunks) = 2
          /\ NonEmptyAnswers[k].chunks[1].compression = 10
          /\ NonEmptyAnswers[k].chunks[2].compression \notin {10, 11}

\* the samples of the untrimmed record k that lie outside the requested window
Trimmed(k) ==
    {i \in 1..Len(out.raw[k].data) :
        ~InWindow(SampleTime(out.raw[k], i), args.start_datetime, args.end_datetime)}

C8_WildcardRejectedFirst ==
    (op = "getPAZ" /\ Contains(args.channel_id, "*"))
        => (out.status = "FissuresException" /\ out.calls = <<>> /\ out.steps = <<>>
            /\ out.paz = <<>>)

C8_Witness ==
    /\ op = "getPAZ"
    /\ Contains(args.channel_id, "*")
    /\ client.netFind = "handle"
    /\ env.dir.nets # <<>>
    /\ out.status = "FissuresException"

\* the candidate lists of a getPAZ call, by level
C9_Order ==
    <<"network", "station", "channel", "instrumentation", "response stage",
      "polezerofilter", "normalization">>

C9_Candidates(level) ==
    LET IsSta(s) == s.station_code = args.station_id
        IsCha(c) == c.channel_code = args.channel_id
        IsPZ(f) == f.d = "POLEZERO"
    IN  CASE level = "network" -> env.dir.nets
          [] level = "station" -> SelectSeq(env.dir.stations, IsSta)
          [] level = "channel" -> SelectSeq(env.dir.channels, IsCha)
          [] level = "instrumentation" -> IF env.dir.instOK THEN <<1>> ELSE <<>>
          [] level = "response stage" -> env.dir.stages
          [] level = "polezerofilter" -> SelectSeq(env.dir.filters, IsPZ)
          [] level = "normalization" -> env.dir.norms

\* the first level without a candidate, 8 if there is none
C9_FirstFail ==
    IF \A i \in 1..7 : C9_Candidates(C9_Order[i]) # <<>> THEN 8
    ELSE CHOOSE i \in 1..7 :
            /\ C9_Candidates(C9_Order[i]) = <<>>
            /\ \A j \in 1..(i - 1) : C9_Candidates(C9_Order[j]) # <<>>

C9_Ambiguous(level) == Len(C9_Candidates(level)) > 1

\* C9: getPAZ looks up network, station, channel, instrumentation, first
\* response stage, pole-zero filter and normalization in that order; the first
\* level without a candidate ends the call with an error, no later step and
\* no result; a level with several candidates gives a warning and the lookup
\* goes on with the first of them.
C9_LookupOrder ==
    (op = "getPAZ" /\ ~Contains(args.channel_id, "*") /\ client.netFind = "handle")
        => LET n == C9_FirstFail
               first(level) == C9_Candidates(level)[1]
           IN  /\ out.steps = SubSeq(C9_Order, 1, IF n = 8 THEN 7 ELSE n)
               /\ Len(out.calls) = (IF n > 4 THEN 4 ELSE n)
               /\ out.status = (IF n = 8 THEN "ok"
                                ELSE IF n = 4 THEN "CORBAError" ELSE "NotFound")
               /\ n < 8 => out.paz = <<>>
               /\ out.warnings = SelectSeq(SubSeq(C9_Order, 1, n - 1), C9_Ambiguous)
               /\ n > 1 => out.calls[2].a = <<first("network")>>
               /\ n > 2 => out.calls[3].a = <<first("network"), first("station").id>>
               /\ n > 3 => (out.calls[4].a[1] = first("network")
                            /\ out.calls[4].a[2] = first("channel").id)
               /\ n = 8 =>
                     /\ Len(out.paz) = 1
                     /\ out.paz[1].poles_zeros
                            = <<first("response stage"), first("polezerofilter").v>>
                     /\ out.paz[1].gain
                            = <<first("response stage"), first("normalization")>>

C9_Witness ==
    /\ op = "getPAZ"
    /\ client.netFind = "handle"
    /\ out.status = "ok"
    /\ Len(out.warnings) >= 4
    /\ "station" \in Range(out.warnings)
    /\ Len(env.dir.channels) = 2
    /\ env.dir.channels[1].channel_code # args.channel_id

C9_WitnessEmpty ==
    /\ op = "getPAZ"
    /\ client.netFind = "handle"
    /\ out.status = "NotFound"
    /\ out.steps = SubSeq(C9_Order, 1, 6)
    /\ out.warnings # <<>>

\* the stations of the answer whose code is the one asked for and whose
\* effective interval strictly contains the instant
C10_Candidates ==
    LET Effective(s) ==
            /\ s.station_code = args.station_id
            /\ UTCDateTime(s.start_time) < args.datetime
            /\ args.datetime < UTCDateTime(s.end_time)
    IN  SelectSeq(env.dir.stations, Effective)

IsPazLookup(c) == c.fn = "getPAZ"

PazLookups == SelectSeq(out.calls, IsPazLookup)

\* the band code of a channel code is wildcarded or absent
BandUnresolvable(channel_id) == Len(channel_id) < 3 \/ channel_id[1] = "*"

\* C11: getWaveform with getPAZ set and a "*" in the channel code: when only
\* the component (third character) is wildcarded, a returning call has warned
\* that the wildcard is resolved to "Z" and every record carries response
\* metadata; when the band code is wildcarded or absent the call fails and
\* attaches no metadata.
C11_WildcardPaz ==
    (op = "getWaveform" /\ args.getPAZ /\ Contains(args.channel_id, "*"))
        => /\ (Len(args.channel_id) = 3 /\ ~Contains(SubSeq(args.channel_id, 1, 2), "*")
                /\ out.status = "ok")
                  => /\ "wildcard" \in Range(out.warnings)
                     /\ \A k \in 1..Len(out.st) : out.st[k].paz # <<>>
           /\ BandUnresolvable(args.channel_id)
                  => (out.status # "ok" /\ out.st = <<>>)

\* C12: the response lookup of a getWaveform call with getPAZ set is issued
\* for the channel code of that call, so calls that differ in channel code
\* look up different channels.
C12_PazOfRequestedChannel ==
    (op = "getWaveform" /\ args.getPAZ /\ ~Contains(args.channel_id, "*"))
        => \A k \in 1..Len(PazLookups) : PazLookups[k].a[3] = args.channel_id

====
